---- MODULE Spec2Model ----
(***************************************************************************)
(* Model of python_llm_toolkit.scraper.WebScraper.                         *)
(*                                                                         *)
(* Strings are sequences of one-character strings, URLs are the records    *)
(* urlparse yields (netloc as host, path as a character sequence).  The    *)
(* web is a fixed table of pages; what one HTTP request does (a body, a    *)
(* non-2xx body, an exception) is chosen per request.                      *)
(***************************************************************************)
EXTENDS Integers, Sequences, FiniteSets, TLC

VARIABLES
    search_terms,     \* self.search_terms
    file_types,       \* self.file_types
    max_depth,        \* self.max_depth
    urls,             \* self.urls
    visited_sites,    \* self.visited_sites
    files_downloaded, \* self.files_downloaded
    found_files,      \* self.found_files
    disk,             \* directories and files under self.output_dir
    fetch_count,      \* per URL, the number of requests.get(url) page requests
    ncalls,           \* number of public operations called so far
    nlinks,           \* number of links handed to download_files so far
    ret,              \* the last operation called, its request outcomes and its return value
    json_file,        \* the text export_snapshots_to_json wrote, as JSON tokens
    csv_file,         \* the rows export_snapshots_to_csv wrote
    snapshots,        \* the list of PageSnapshot the caller holds and exports
    frontier,         \* crawl: FIFO of FrontierEntry [url, depth]
    live,             \* crawl: the live-work counter
    wstate,           \* crawl: the state of each worker
    wentry,           \* crawl: the entry each worker holds
    wdoc,             \* crawl: the document each worker fetched
    crawl_snapshots,  \* crawl: CrawlResult.snapshots
    fetched,          \* crawl: every entry given to the Page Fetcher, with the outcome
    pushed,           \* crawl: every entry ever pushed onto the frontier
    finished          \* crawl: the entries whose worker is through with them

vars == <<search_terms, file_types, max_depth, urls, visited_sites,
          files_downloaded, found_files, disk, fetch_count, ncalls, nlinks, ret,
          json_file, csv_file, snapshots,
          frontier, live, wstate, wentry, wdoc, crawl_snapshots, fetched,
          pushed, finished>>

scraper_vars == <<search_terms, file_types, max_depth, urls, visited_sites,
                  files_downloaded, found_files, disk, fetch_count, ncalls, nlinks,
                  ret, json_file, csv_file, snapshots>>

store_vars == <<json_file, csv_file, snapshots>>

crawl_vars == <<frontier, live, wstate, wentry, wdoc, crawl_snapshots, fetched,
                pushed, finished>>

----------------------------------------------------------------------------
(* Bounds *)

MaxUrls == 2
MaxCalls == 2
MaxLinks == 3
MaxSnaps == 2

----------------------------------------------------------------------------
(* Strings *)

Lower(c) ==
    CASE c = "F" -> "f"
      [] c = "O" -> "o"
      [] c = "P" -> "p"
      [] OTHER -> c

LowerStr(s) == [i \in 1..Len(s) |-> Lower(s[i])]

\* python's `k in t` for strings
IsSubstring(k, t) ==
    \E i \in 0..(Len(t) - Len(k)) : SubSeq(t, i + 1, i + Len(k)) = k

\* str.rfind(c) + 1: the last position of c in s, 0 when absent
RFind(s, c) ==
    IF \E i \in 1..Len(s) : s[i] = c
    THEN CHOOSE i \in 1..Len(s) : s[i] = c /\ \A j \in (i + 1)..Len(s) : s[j] # c
    ELSE 0

\* os.path.basename
BaseName(path) == SubSeq(path, RFind(path, "/") + 1, Len(path))

\* os.path.splitext(filename)[1]: from the last dot on, provided a character
\* other than a dot precedes it
SplitExt(filename) ==
    LET d == RFind(filename, ".")
    IN  IF d > 0 /\ \E i \in 1..(d - 1) : filename[i] # "."
        THEN SubSeq(filename, d, Len(filename))
        ELSE <<>>

RECURSIVE LStripDot(_)
LStripDot(s) ==
    IF s # <<>> /\ Head(s) = "." THEN LStripDot(Tail(s)) ELSE s

SeqsUpTo(S, n) == UNION {[1..k -> S] : k \in 0..n}

----------------------------------------------------------------------------
(* Module constants *)

SEARCH_TERMS == << <<"p", "r">>, <<"c", "o">> >>

FILE_EXTENSIONS == << <<".", "p">>, <<".", "x">>, <<"c">> >>

OutputDir == "downloads"

----------------------------------------------------------------------------
(* The web *)

UA == [host |-> "a.test", path |-> <<>>]
UB == [host |-> "a.test", path |-> <<"/", "b">>]
UC == [host |-> "b.test", path |-> <<"/", "c">>]
UDoc == [host |-> "a.test", path |-> <<"/", "d", ".", "p">>]
UDoc2 == [host |-> "a.test", path |-> <<"/", "x", "/", "d", ".", "p">>]
UDir == [host |-> "b.test", path |-> <<"/", "x", "/">>]
URaw == [host |-> "b.test", path |-> <<"/", "r">>]

\* pages with a long visible text, pages with structured-data script blocks
UExact == [host |-> "t.test", path |-> <<"/", "e">>]
UOver == [host |-> "t.test", path |-> <<"/", "o">>]
UScripts == [host |-> "s.test", path |-> <<"/", "s">>]
UBroken == [host |-> "s.test", path |-> <<"/", "k">>]

PageURLs == {UA, UB, UC, UDoc, UExact, UOver, UScripts, UBroken}
SeedURLs == {UA, UB}
SnapshotURLs == {UA, UExact, UOver, UScripts, UBroken}
FileLinks == {UDoc, UDoc2, UDir, URaw}

\* a link in capitals, and the links given to filter_links_by_file_type
UDocUpper == [host |-> "a.test", path |-> <<"/", "D", ".", "P">>]
FilterLinks == {UDoc, UDocUpper, UDir, URaw}

KwFo == <<"f", "O">>

EmptyHeadings == [h \in {"h1", "h2", "h3", "h4", "h5", "h6"} |-> <<>>]

SnippetMax == 1000

\* a text of n characters, no two neighbours alike
TextOf(n) == [i \in 1..n |-> IF i % 3 = 0 THEN "a" ELSE IF i % 3 = 1 THEN "b" ELSE "c"]

TextPage(title, n) ==
    [title |-> title, text |-> TextOf(n), visible |-> TextOf(n),
     headings |-> [EmptyHeadings EXCEPT !["h1"] = <<title>>], tables |-> <<>>, scripts |-> <<>>,
     links |-> <<[text |-> "a", href |-> UA]>>]

\* the text of script blocks.  Well-formed: an object, a list of an object
\* and a number, a number between newlines.  Malformed: a key without a value,
\* a string left open, a block without text, a list with a comma too many.
BlockPerson == <<"{", "\"", "@type", "\"", ":", " ", "\"", "Person", "\"", "}">>
BlockNoValue == <<"{", "\"", "a", "\"", ":", "}">>
BlockList == <<"[", "{", "\"", "n", "\"", ":", "1", "}", ",", " ", "2", "]">>
BlockOpenString == <<"\"", "open">>
BlockNumber == <<"\n", "3", "\n">>
BlockEmpty == <<>>
BlockTrailingComma == <<"[", "1", ",", "]">>

ScriptPage(title, scripts) ==
    [title |-> title, text |-> <<"x">>, visible |-> <<"x">>,
     headings |-> [EmptyHeadings EXCEPT !["h2"] = <<title, "f">>], tables |-> <<>>, scripts |-> scripts,
     links |-> <<[text |-> "a", href |-> UA], [text |-> "doc", href |-> UDoc]>>]

\* a table: its non-empty rows, each the texts of its cells
TableA == << <<"k", "v">>, <<"x", "1">> >>

\* the parsed document of each URL: title, get_text(), joined visible text,
\* headings, tables, the text of each ld+json script block, anchors in document order
\* (href already joined)
Web(u) ==
    CASE u = UExact -> TextPage("E", SnippetMax)
      [] u = UOver -> TextPage("O", SnippetMax + 1)
      [] u = UScripts -> ScriptPage("S", <<BlockPerson, BlockNoValue, BlockList, BlockOpenString,
                                          BlockNumber, BlockEmpty>>)
      [] u = UBroken -> ScriptPage("K", <<BlockTrailingComma, BlockNoValue>>)
      [] u = UA -> [title |-> "A", text |-> <<"x", "F", "o">>, visible |-> <<"x", "F", "o">>,
                    headings |-> [EmptyHeadings EXCEPT !["h1"] = <<"A">>],
                    tables |-> <<TableA>>, scripts |-> <<>>,
                    links |-> <<[text |-> "b", href |-> UB], [text |-> "doc", href |-> UDoc]>>]
      [] u = UB -> [title |-> "B", text |-> <<"x", "x">>, visible |-> <<"x", "x">>,
                    headings |-> EmptyHeadings, tables |-> <<>>, scripts |-> <<>>,
                    links |-> <<[text |-> "a", href |-> UA], [text |-> "c", href |-> UC]>>]
      [] u = UC -> [title |-> "C", text |-> <<"f", "o">>, visible |-> <<"f", "o">>,
                    headings |-> EmptyHeadings, tables |-> <<>>, scripts |-> <<>>,
                    links |-> <<[text |-> "a", href |-> UA]>>]
      [] OTHER -> [title |-> "", text |-> <<>>, visible |-> <<>>,
                   headings |-> EmptyHeadings, tables |-> <<>>, scripts |-> <<>>, links |-> <<>>]

\* the body a server sends with a non-2xx status
ErrorPage == [title |-> "Not Found", text |-> <<"n", "f">>, visible |-> <<"n", "f">>,
              headings |-> EmptyHeadings, tables |-> <<>>, scripts |-> <<>>, links |-> <<>>]

\* requests.get(url) for a page: "ok" a 2xx body, "status" a non-2xx body
\* (no raise_for_status on page requests), "raise" an exception
PageOutcomes == {"ok", "status", "raise"}

Soup(u, out) == IF out = "ok" THEN Web(u) ELSE ErrorPage

\* requests.get(link) + raise_for_status + open/write for a file
DownloadOutcomes == {"ok", "http_error", "io_error"}

----------------------------------------------------------------------------
(* WebScraper.__init__ *)

\* an Optional argument: {} is None, {v} is the value v
NoneArg == {}
Some(v) == {v}

OrDefault(arg, default) == IF arg = NoneArg THEN default ELSE CHOOSE v \in arg : TRUE

InitScraper(st_arg, ft_arg, md, us) ==
    /\ search_terms = OrDefault(st_arg, SEARCH_TERMS)
    /\ file_types = OrDefault(ft_arg, FILE_EXTENSIONS)
    /\ max_depth = md
    /\ visited_sites = {}
    /\ files_downloaded = <<>>
    /\ found_files = <<>>
    /\ urls = us
    /\ disk = [dirs |-> {<<OutputDir>>}, files |-> {}]

----------------------------------------------------------------------------
(* Python values and the json module *)

\* A Python value that json can carry, tagged with its type.  A str is a
\* sequence of chunks: a chunk is one of the characters the encoder escapes
\* (quote, backslash, newline), one other character, or a run of plain text.
\* A dict is the sequence of its <<key, value>> pairs in insertion order.
Str(s) == [t |-> "str", v |-> s]
Num(n) == [t |-> "num", v |-> n]
Bool(b) == [t |-> "bool", v |-> b]
PyNone == [t |-> "null", v |-> 0]
List(xs) == [t |-> "list", v |-> xs]
Dict(ps) == [t |-> "dict", v |-> ps]

Keys(ps) == {ps[i][1] : i \in 1..Len(ps)}

Get(ps, k) == ps[CHOOSE i \in 1..Len(ps) : ps[i][1] = k][2]

\* d[k] = v on a dict: a new key goes last, an old key keeps its place
SetItem(ps, k, v) ==
    IF k \in Keys(ps) THEN [i \in 1..Len(ps) |-> IF ps[i][1] = k THEN <<k, v>> ELSE ps[i]]
    ELSE Append(ps, <<k, v>>)

Digits == <<"0", "1", "2", "3", "4", "5", "6", "7", "8", "9">>

Whitespace == {" ", "\n"}

\* the characters a JSON string cannot hold as they are
Special == {"\"", "\\", "\n"}

\* the first position at or after i that holds a special character, Len(s) + 1
\* when there is none
NextSpecial(s, i) ==
    CHOOSE k \in i..(Len(s) + 1) :
        /\ k = Len(s) + 1 \/ s[k] \in Special
        /\ \A m \in i..(k - 1) : s[m] \notin Special

\* json.encoder: the quote, backslash and newline of a string are escaped, the
\* runs between them copied
RECURSIVE EscapeFrom(_, _)
EscapeFrom(s, i) ==
    LET k == NextSpecial(s, i)
    IN  SubSeq(s, i, k - 1)
        \o (IF k > Len(s) THEN <<>>
            ELSE <<"\\", IF s[k] = "\n" THEN "n" ELSE s[k]>> \o EscapeFrom(s, k + 1))

Escape(s) == EscapeFrom(s, 1)

\* a quoting that writes the characters as they are
QuoteRaw(s) == <<"\"">> \o s \o <<"\"">>

Quote(s) == <<"\"">> \o Escape(s) \o <<"\"">>

RECURSIVE IntChunks(_)
IntChunks(n) ==
    IF n < 0 THEN <<"-">> \o IntChunks(0 - n)
    ELSE IF n < 10 THEN <<Digits[n + 1]>>
    ELSE IntChunks(n \div 10) \o <<Digits[(n % 10) + 1]>>

\* indent=2: a newline and two spaces per nesting level
Indent(level) == <<"\n">> \o [i \in 1..(2 * level) |-> " "]

RECURSIVE Dumps(_, _), DumpItems(_, _), DumpMembers(_, _)
\* json.dump(x, f, ensure_ascii=False, indent=2): the text written
Dumps(x, level) ==
    CASE x.t = "str" -> Quote(x.v)
      [] x.t = "num" -> IntChunks(x.v)
      [] x.t = "bool" -> IF x.v THEN <<"true">> ELSE <<"false">>
      [] x.t = "null" -> <<"null">>
      [] x.t = "list" ->
            IF x.v = <<>> THEN <<"[", "]">>
            ELSE <<"[">> \o DumpItems(x.v, level + 1) \o Indent(level) \o <<"]">>
      [] x.t = "dict" ->
            IF x.v = <<>> THEN <<"{", "}">>
            ELSE <<"{">> \o DumpMembers(x.v, level + 1) \o Indent(level) \o <<"}">>

DumpItems(xs, level) ==
    Indent(level) \o Dumps(Head(xs), level)
    \o (IF Len(xs) > 1 THEN <<",">> \o DumpItems(Tail(xs), level) ELSE <<>>)

DumpMembers(ps, level) ==
    Indent(level) \o Quote(Head(ps)[1]) \o <<":", " ">> \o Dumps(Head(ps)[2], level)
    \o (IF Len(ps) > 1 THEN <<",">> \o DumpMembers(Tail(ps), level) ELSE <<>>)

\* json.decoder: a parse of s from position i gives the value and the position
\* after it, or fails (JSONDecodeError)
ParseFail == [ok |-> FALSE, val |-> PyNone, pos |-> 0]

Parsed(x, i) == [ok |-> TRUE, val |-> x, pos |-> i]

RECURSIVE SkipWs(_, _)
SkipWs(s, i) == IF i <= Len(s) /\ s[i] \in Whitespace THEN SkipWs(s, i + 1) ELSE i

\* i is a position after the opening quote, acc the characters read so far:
\* the run up to the next quote, backslash or newline is taken as it is
RECURSIVE ParseString(_, _, _)
ParseString(s, i, acc) ==
    LET k == NextSpecial(s, i)
        run == acc \o SubSeq(s, i, k - 1)
    IN  IF k > Len(s) THEN ParseFail
        ELSE CASE s[k] = "\"" -> Parsed(run, k + 1)
               [] s[k] = "\n" -> ParseFail
               [] OTHER ->
                    IF k + 1 > Len(s) THEN ParseFail
                    ELSE IF s[k + 1] = "n" THEN ParseString(s, k + 2, Append(run, "\n"))
                    ELSE IF s[k + 1] \in {"\"", "\\"}
                    THEN ParseString(s, k + 2, Append(run, s[k + 1]))
                    ELSE ParseFail

IsDigit(c) == \E d \in 1..10 : Digits[d] = c

DigitVal(c) == (CHOOSE d \in 1..10 : Digits[d] = c) - 1

RECURSIVE ParseDigits(_, _, _)
ParseDigits(s, i, acc) ==
    IF i <= Len(s) /\ IsDigit(s[i]) THEN ParseDigits(s, i + 1, (10 * acc) + DigitVal(s[i]))
    ELSE Parsed(acc, i)

\* an integer: no digit is an error, and so is a leading zero
ParseNumber(s, i) ==
    LET r == ParseDigits(s, i, 0)
    IN  IF r.pos = i \/ (s[i] = "0" /\ r.pos > i + 1) THEN ParseFail ELSE r

RECURSIVE ParseValue(_, _), ParseElems(_, _, _), ParseMembers(_, _, _)
ParseValue(s, i) ==
    LET j == SkipWs(s, i)
    IN  IF j > Len(s) THEN ParseFail
        ELSE CASE s[j] = "\"" ->
                    LET r == ParseString(s, j + 1, <<>>)
                    IN  IF r.ok THEN Parsed(Str(r.val), r.pos) ELSE ParseFail
               [] s[j] = "[" ->
                    LET k == SkipWs(s, j + 1)
                    IN  IF k <= Len(s) /\ s[k] = "]" THEN Parsed(List(<<>>), k + 1)
                        ELSE ParseElems(s, k, <<>>)
               [] s[j] = "{" ->
                    LET k == SkipWs(s, j + 1)
                    IN  IF k <= Len(s) /\ s[k] = "}" THEN Parsed(Dict(<<>>), k + 1)
                        ELSE ParseMembers(s, k, <<>>)
               [] s[j] = "null" -> Parsed(PyNone, j + 1)
               [] s[j] = "true" -> Parsed(Bool(TRUE), j + 1)
               [] s[j] = "false" -> Parsed(Bool(FALSE), j + 1)
               [] s[j] = "-" ->
                    LET r == ParseNumber(s, j + 1)
                    IN  IF r.ok THEN Parsed(Num(0 - r.val), r.pos) ELSE ParseFail
               [] OTHER ->
                    LET r == ParseNumber(s, j)
                    IN  IF r.ok THEN Parsed(Num(r.val), r.pos) ELSE ParseFail

ParseElems(s, i, acc) ==
    LET r == ParseValue(s, i)
        k == SkipWs(s, r.pos)
    IN  IF ~r.ok \/ k > Len(s) THEN ParseFail
        ELSE IF s[k] = "," THEN ParseElems(s, k + 1, Append(acc, r.val))
        ELSE IF s[k] = "]" THEN Parsed(List(Append(acc, r.val)), k + 1)
        ELSE ParseFail

ParseMembers(s, i, acc) ==
    LET j == SkipWs(s, i)
        key == IF j <= Len(s) /\ s[j] = "\"" THEN ParseString(s, j + 1, <<>>) ELSE ParseFail
        c == SkipWs(s, key.pos)
        r == IF key.ok /\ c <= Len(s) /\ s[c] = ":" THEN ParseValue(s, c + 1) ELSE ParseFail
        k == SkipWs(s, r.pos)
    IN  IF ~r.ok \/ k > Len(s) THEN ParseFail
        ELSE IF s[k] = "," THEN ParseMembers(s, k + 1, SetItem(acc, key.val, r.val))
        ELSE IF s[k] = "}" THEN Parsed(Dict(SetItem(acc, key.val, r.val)), k + 1)
        ELSE ParseFail

\* json.loads(s): one value, then nothing but whitespace
Loads(s) ==
    LET r == ParseValue(s, 1)
    IN  IF r.ok /\ SkipWs(s, r.pos) > Len(s) THEN r ELSE ParseFail

----------------------------------------------------------------------------
(* Per-page extraction *)

CountIn(us, u) == Cardinality({i \in 1..Len(us) : us[i] = u})

\* one requests.get per element of self.urls
Requested(us) == [u \in PageURLs |-> fetch_count[u] + CountIn(us, u)]

Hrefs(links) == [i \in 1..Len(links) |-> links[i].href]

RECURSIVE FetchLinksLoop(_, _)
FetchLinksLoop(us, outs) ==
    IF us = <<>> THEN <<>>
    ELSE (IF Head(outs) = "raise" THEN <<>>
          ELSE Hrefs(Soup(Head(us), Head(outs)).links))
         \o FetchLinksLoop(Tail(us), Tail(outs))

\* a match list that drops the substring test
KeywordMatchesUnfiltered(terms, text) == terms

KeywordMatches(terms, text) ==
    SelectSeq(terms, LAMBDA keyword : IsSubstring(LowerStr(keyword), LowerStr(text)))

Put(dict, k, v) == [x \in (DOMAIN dict) \cup {k} |-> IF x = k THEN v ELSE dict[x]]

EmptyDict == [x \in {} |-> <<>>]

RECURSIVE SearchLoop(_, _, _)
SearchLoop(us, outs, keyword_hits) ==
    IF us = <<>> THEN keyword_hits
    ELSE SearchLoop(Tail(us), Tail(outs),
                    Put(keyword_hits, Head(us),
                        IF Head(outs) = "raise" THEN <<>>
                        ELSE KeywordMatches(search_terms, Soup(Head(us), Head(outs)).text)))

\* a snippet that also cuts a text of exactly SnippetMax characters
SnippetInclusive(joined_text) ==
    IF Len(joined_text) >= SnippetMax
    THEN SubSeq(joined_text, 1, SnippetMax) \o <<".", ".", ".">>
    ELSE joined_text

Snippet(joined_text) ==
    IF Len(joined_text) > SnippetMax
    THEN SubSeq(joined_text, 1, SnippetMax) \o <<".", ".", ".">>
    ELSE joined_text

\* a loop that a malformed block ends
RECURSIVE JsonLdLoopAborting(_)
JsonLdLoopAborting(scripts) ==
    IF scripts = <<>> THEN <<>>
    ELSE LET parsed == Loads(Head(scripts))
         IN  IF ~parsed.ok THEN <<>>
             ELSE (IF parsed.val.t = "list" THEN parsed.val.v ELSE <<parsed.val>>)
                  \o JsonLdLoopAborting(Tail(scripts))

\* the loop over the ld+json script blocks: json.loads of each, a list
\* extends json_ld, another value is appended, an exception skips the block
RECURSIVE JsonLdLoop(_)
JsonLdLoop(scripts) ==
    IF scripts = <<>> THEN <<>>
    ELSE LET parsed == Loads(Head(scripts))
         IN  (IF ~parsed.ok THEN <<>>
              ELSE IF parsed.val.t = "list" THEN parsed.val.v ELSE <<parsed.val>>)
             \o JsonLdLoop(Tail(scripts))

PageSnapshot(url, soup) ==
    [url |-> url, title |-> soup.title, headings |-> soup.headings,
     main_text_snippet |-> Snippet(soup.visible), json_ld |-> JsonLdLoop(soup.scripts),
     links |-> soup.links]

EmptySnapshot(url) ==
    [url |-> url, title |-> "", headings |-> EmptyHeadings,
     main_text_snippet |-> <<>>, json_ld |-> <<>>, links |-> <<>>]

RECURSIVE SnapshotLoop(_, _)
SnapshotLoop(us, outs) ==
    IF us = <<>> THEN <<>>
    ELSE <<IF Head(outs) = "raise" THEN EmptySnapshot(Head(us))
           ELSE PageSnapshot(Head(us), Soup(Head(us), Head(outs)))>>
         \o SnapshotLoop(Tail(us), Tail(outs))

PageOp(op, outs, value) ==
    /\ ret' = [op |-> op, args |-> urls, outs |-> outs, value |-> value]
    /\ fetch_count' = Requested(SubSeq(urls, 1, Len(outs)))
    /\ ncalls' = ncalls + 1
    /\ UNCHANGED <<search_terms, file_types, max_depth, urls, visited_sites,
                   files_downloaded, found_files, disk, nlinks>>
    /\ UNCHANGED store_vars
    /\ UNCHANGED crawl_vars

FetchLinksFromUrl ==
    /\ ncalls < MaxCalls
    /\ \E outs \in [1..Len(urls) -> PageOutcomes] :
          PageOp("fetch_links_from_url", outs, FetchLinksLoop(urls, outs))

SearchTextForKeywords ==
    /\ ncalls < MaxCalls
    /\ \E outs \in [1..Len(urls) -> PageOutcomes] :
          PageOp("search_text_for_keywords", outs, SearchLoop(urls, outs, EmptyDict))

RECURSIVE LinksWithTextLoop(_, _, _)
LinksWithTextLoop(us, outs, results) ==
    IF us = <<>> THEN results
    ELSE LinksWithTextLoop(Tail(us), Tail(outs),
                           Put(results, Head(us),
                               IF Head(outs) = "raise" THEN <<>>
                               ELSE Soup(Head(us), Head(outs)).links))

ExtractLinksWithText ==
    /\ ncalls < MaxCalls
    /\ \E outs \in [1..Len(urls) -> PageOutcomes] :
          PageOp("extract_links_with_text", outs, LinksWithTextLoop(urls, outs, EmptyDict))

\* `return table_data` is in the body of the loop: the first URL is requested
\* and the dict returned; with no URL the function ends without a return
ExtractTablesFirst(us, outs) ==
    IF us = <<>> THEN NoneArg
    ELSE Some(Put(EmptyDict, Head(us),
                  IF Head(outs) = "raise" THEN <<>>
                  ELSE Soup(Head(us), Head(outs)).tables))

ExtractTables ==
    /\ ncalls < MaxCalls
    /\ \E outs \in [1..(IF urls = <<>> THEN 0 ELSE 1) -> PageOutcomes] :
          PageOp("extract_tables", outs, ExtractTablesFirst(urls, outs))

RECURSIVE MainTextLoop(_, _, _)
MainTextLoop(us, outs, result) ==
    IF us = <<>> THEN result
    ELSE MainTextLoop(Tail(us), Tail(outs),
                      Put(result, Head(us),
                          IF Head(outs) = "raise" THEN <<>>
                          ELSE Soup(Head(us), Head(outs)).visible))

ExtractMainText ==
    /\ ncalls < MaxCalls
    /\ \E outs \in [1..Len(urls) -> PageOutcomes] :
          PageOp("extract_main_text", outs, MainTextLoop(urls, outs, EmptyDict))

\* the parsed data of a fetched page is dropped: json_data[url] is assigned
\* in the except branch only
RECURSIVE JsonLdDictLoop(_, _, _)
JsonLdDictLoop(us, outs, json_data) ==
    IF us = <<>> THEN json_data
    ELSE JsonLdDictLoop(Tail(us), Tail(outs),
                        IF Head(outs) = "raise" THEN Put(json_data, Head(us), <<>>)
                        ELSE json_data)

ExtractJsonLd ==
    /\ ncalls < MaxCalls
    /\ \E outs \in [1..Len(urls) -> PageOutcomes] :
          PageOp("extract_json_ld", outs, JsonLdDictLoop(urls, outs, EmptyDict))

GetStructuredPageSnapshot ==
    /\ ncalls < MaxCalls
    /\ \E outs \in [1..Len(urls) -> PageOutcomes] :
          PageOp("get_structured_page_snapshot", outs, SnapshotLoop(urls, outs))

----------------------------------------------------------------------------
(* The snapshot store: JSON and CSV files *)

Key(name) == <<name>>

HeadingLevels == <<"h1", "h2", "h3", "h4", "h5", "h6">>

\* a PageSnapshot whose fields hold Python values
Snapshot(url, title, headings, main_text_snippet, json_ld, links) ==
    [url |-> url, title |-> title, headings |-> headings,
     main_text_snippet |-> main_text_snippet, json_ld |-> json_ld, links |-> links]

to_dict(snap) ==
    Dict(<< <<Key("url"), snap.url>>, <<Key("title"), snap.title>>,
            <<Key("headings"), snap.headings>>,
            <<Key("main_text_snippet"), snap.main_text_snippet>>,
            <<Key("json_ld"), snap.json_ld>>, <<Key("links"), snap.links>> >>)

SnapshotKeys == {Key("url"), Key("title"), Key("headings"), Key("main_text_snippet"),
                 Key("json_ld"), Key("links")}

\* PageSnapshot(**item) is a TypeError unless item has the six field names
IsSnapshotItem(item) == item.t = "dict" /\ Keys(item.v) = SnapshotKeys

FromItem(item) ==
    Snapshot(Get(item.v, Key("url")), Get(item.v, Key("title")),
             Get(item.v, Key("headings")), Get(item.v, Key("main_text_snippet")),
             Get(item.v, Key("json_ld")), Get(item.v, Key("links")))

Headings(h1s) ==
    Dict([i \in 1..6 |-> <<Key(HeadingLevels[i]), List(IF i = 1 THEN h1s ELSE <<>>)>>])

Link(text, href) == Dict(<< <<Key("text"), Str(text)>>, <<Key("href"), Str(href)>> >>)

\* a 500-character text with commas and newlines in it
LongText == [i \in 1..500 |-> IF i % 7 = 0 THEN "," ELSE IF i % 50 = 0 THEN "\n" ELSE "x"]

\* a page of plain text
SnapPlain ==
    Snapshot(Str(<<"http://a.test">>), Str(<<"A">>), Headings(<<Str(<<"A">>)>>),
             Str(<<"x", "F", "o">>), List(<<>>),
             List(<<Link(<<"b">>, <<"http://a.test/b">>), Link(<<"doc">>, <<"http://a.test/d.p">>)>>))

\* a page whose texts hold the characters JSON escapes or uses as punctuation,
\* and whose structured data holds every kind of JSON value
SnapQuoted ==
    Snapshot(Str(<<"http://b.test/c?q=", "\"", "x", "\"">>),
             Str(<<"say ", "\"", "hi", "\"", ",", " ", "\\", "n", "]">>),
             Headings(<<Str(<<"{", "\n", "}">>), Str(<<>>)>>),
             Str(<<"a", "\n", "b", ",", "\\">>),
             List(<<Dict(<< <<Key("@type"), Str(<<"Person">>)>>,
                            <<<<"a", "\"", "ge">>, Num(0 - 42)>>,
                            <<Key("tags"), List(<<PyNone, Bool(TRUE), Bool(FALSE), Num(0),
                                                  Num(107), Str(<<>>), List(<<>>)>>)>>,
                            <<Key("nested"), Dict(<<>>)>> >>),
                    Str(<<"null">>)>>),
             List(<<Link(<<"\\", "\\">>, <<"#">>)>>))

\* the snapshot of a page whose fetch failed
SnapFailed ==
    Snapshot(Str(<<"http://a.test/b">>), Str(<<>>), Headings(<<>>), Str(<<>>), List(<<>>),
             List(<<>>))

\* a page with a long snippet
SnapLong ==
    Snapshot(Str(<<"http://b.test/c">>), Str(<<"C">>), Headings(<<>>), Str(LongText),
             List(<<Dict(<< <<Key("n"), Num(1)>> >>)>>), List(<<>>))

StoreSnapshots == {SnapPlain, SnapQuoted, SnapFailed, SnapLong}

StoreOp(op, outs, value) ==
    /\ ret' = [op |-> op, args |-> snapshots, outs |-> outs, value |-> value]
    /\ UNCHANGED <<snapshots, ncalls, nlinks>>
    /\ UNCHANGED <<search_terms, file_types, max_depth, urls, visited_sites,
                   files_downloaded, found_files, disk, fetch_count>>
    /\ UNCHANGED crawl_vars

ExportSnapshotsToJson ==
    /\ json_file' = Dumps(List([i \in 1..Len(snapshots) |-> to_dict(snapshots[i])]), 0)
    /\ UNCHANGED csv_file
    /\ StoreOp("export_snapshots_to_json", <<>>, <<>>)

\* open() raises when the file was never written, json.load when it does not
\* parse, PageSnapshot(**item) when an item has other keys
LoadSnapshotsFromJson ==
    /\ LET data == Loads(json_file)
       IN  IF data.ok /\ data.val.t = "list"
              /\ \A i \in 1..Len(data.val.v) : IsSnapshotItem(data.val.v[i])
           THEN StoreOp("load_snapshots_from_json", <<>>,
                        [i \in 1..Len(data.val.v) |-> FromItem(data.val.v[i])])
           ELSE StoreOp("load_snapshots_from_json", <<"raise">>, <<>>)
    /\ UNCHANGED <<json_file, csv_file>>

CsvFieldNames == <<"url", "title", "main_text_snippet", "num_links", "num_headings",
                   "num_json_ld">>

CsvSnippetMax == 300

\* s[:n]
Prefix(s, n) == SubSeq(s, 1, IF Len(s) < n THEN Len(s) ELSE n)

\* sum(len(hs) for hs in headings.values())
RECURSIVE NumHeadings(_)
NumHeadings(ps) == IF ps = <<>> THEN 0 ELSE Len(Head(ps)[2].v) + NumHeadings(Tail(ps))

\* the dict handed to writer.writerow
CsvRow(snap) ==
    [url |-> snap.url.v, title |-> snap.title.v,
     main_text_snippet |-> Prefix(snap.main_text_snippet.v, CsvSnippetMax),
     num_links |-> Len(snap.links.v),
     num_headings |-> NumHeadings(snap.headings.v),
     num_json_ld |-> Len(snap.json_ld.v)]

\* the file: the header row, then one row per snapshot
ExportSnapshotsToCsv ==
    /\ csv_file' = <<CsvFieldNames>> \o [i \in 1..Len(snapshots) |-> CsvRow(snapshots[i])]
    /\ UNCHANGED json_file
    /\ StoreOp("export_snapshots_to_csv", <<>>, <<>>)

----------------------------------------------------------------------------
(* File harvesting *)

EndsWith(s, suffix) ==
    /\ Len(suffix) <= Len(s)
    /\ SubSeq(s, Len(s) - Len(suffix) + 1, Len(s)) = suffix

\* the URL as the string the link is: the host, then the path
UrlChars(link) == <<link.host>> \o link.path

FilterLinksByFileType(links) ==
    SelectSeq(links, LAMBDA link :
        \E i \in 1..Len(file_types) : EndsWith(LowerStr(UrlChars(link)), file_types[i]))

FilterLinksByFileTypeCall ==
    /\ \E links \in SeqsUpTo(FilterLinks, MaxLinks) :
          ret' = [op |-> "filter_links_by_file_type", args |-> links, outs |-> <<>>,
                  value |-> FilterLinksByFileType(links)]
    /\ UNCHANGED <<search_terms, file_types, max_depth, urls, visited_sites,
                   files_downloaded, found_files, disk, fetch_count, ncalls, nlinks>>
    /\ UNCHANGED store_vars
    /\ UNCHANGED crawl_vars

FileName(link) == BaseName(link.path)

ExtDir(filename) ==
    LET ext == LStripDot(SplitExt(filename))
    IN  IF ext = <<>> THEN <<"unknown">> ELSE ext

\* create_output_directory(f"{domain}/{ext}")
SaveDir(link) == <<OutputDir, link.host, ExtDir(FileName(link))>>

FilePath(link) == Append(SaveDir(link), FileName(link))

\* the loop of download_files: acc is the local list `downloaded` and the disk;
\* first a loop whose first failed download ends it
RECURSIVE DownloadLoopAborting(_, _, _)
DownloadLoopAborting(links, outs, acc) ==
    IF links = <<>> THEN acc
    ELSE LET link == Head(links)
             made == [acc EXCEPT !.dirs = @ \cup {SaveDir(link)}]
         IN  IF FileName(link) = <<>>
             THEN DownloadLoopAborting(Tail(links), Tail(outs), acc)
             ELSE IF Head(outs) = "ok"
                  THEN DownloadLoopAborting(Tail(links), Tail(outs),
                           [made EXCEPT !.files = @ \cup {FilePath(link)},
                                        !.downloaded = Append(@, FilePath(link))])
                  ELSE made

RECURSIVE DownloadLoop(_, _, _)
DownloadLoop(links, outs, acc) ==
    IF links = <<>> THEN acc
    ELSE LET link == Head(links)
             made == [acc EXCEPT !.dirs = @ \cup {SaveDir(link)}]
         IN  DownloadLoop(Tail(links), Tail(outs),
                 IF FileName(link) = <<>> THEN acc
                 ELSE IF Head(outs) = "ok"
                      THEN [made EXCEPT !.files = @ \cup {FilePath(link)},
                                        !.downloaded = Append(@, FilePath(link))]
                      ELSE made)

\* an assignment in place of the extend
ExtendReplacing(list, items) == items

\* list.extend(items)
Extend(list, items) == list \o items

DownloadFiles ==
    /\ ncalls < MaxCalls
    /\ \E links \in SeqsUpTo(FileLinks, MaxLinks - nlinks) :
       \E outs \in [1..Len(links) -> DownloadOutcomes] :
          LET r == DownloadLoop(links, outs,
                       [downloaded |-> <<>>, dirs |-> disk.dirs, files |-> disk.files])
          IN  /\ files_downloaded' = Extend(files_downloaded, r.downloaded)
              /\ disk' = [dirs |-> r.dirs, files |-> r.files]
              /\ ret' = [op |-> "download_files", args |-> links, outs |-> outs,
                         value |-> r.downloaded]
              /\ nlinks' = nlinks + Len(links)
    /\ ncalls' = ncalls + 1
    /\ UNCHANGED <<search_terms, file_types, max_depth, urls, visited_sites,
                   found_files, fetch_count>>
    /\ UNCHANGED store_vars
    /\ UNCHANGED crawl_vars

----------------------------------------------------------------------------
(* The crawl engine: frontier, visited set and worker pool.                 *)
(* scraper.py declares visited_sites and max_depth and holds no worker     *)
(* loop; the states and transitions are those of the design (4.1, 4.5),    *)
(* the step on a non-matching page is the early return its design notes    *)
(* record.  Workers call the extraction and harvesting operators above.    *)

Concurrency == 2
Workers == 1..Concurrency

NoEntry == [url |-> UA, depth |-> -1]
NoDoc == [title |-> "", text |-> <<>>, visible |-> <<>>,
          headings |-> EmptyHeadings, tables |-> <<>>, scripts |-> <<>>, links |-> <<>>]

Seeds(us) == [i \in 1..Len(us) |-> [url |-> us[i], depth |-> 0]]

Range(s) == {s[i] : i \in 1..Len(s)}

NoCrawl ==
    /\ frontier = <<>>
    /\ live = 0
    /\ wstate = [w \in Workers |-> "Idle"]
    /\ wentry = [w \in Workers |-> NoEntry]
    /\ wdoc = [w \in Workers |-> NoDoc]
    /\ crawl_snapshots = <<>>
    /\ fetched = {}
    /\ pushed = {}
    /\ finished = {}

\* a verdict without the empty-filter case
KeywordVerdictMatchOnly(terms, text) == KeywordMatches(terms, text) # <<>>

\* the keyword verdict of the Document Extractor
KeywordVerdict(terms, text) ==
    terms = <<>> \/ KeywordMatches(terms, text) # <<>>

\* termination on a bare queue-empty check
PoolDoneQueueEmpty == frontier = <<>>

\* the pool-wide termination condition
PoolDone == frontier = <<>> /\ live = 0

\* no depth test at claim time
TooDeepNever(entry) == FALSE

\* an entry too deep to be fetched
TooDeep(entry) == entry.depth > max_depth

\* tryClaim would fail
AlreadyClaimed(url) == url \in visited_sites

\* the entries a page at `depth` contributes to the frontier
Children(doc, depth) ==
    IF depth + 1 <= max_depth
    THEN [i \in 1..Len(doc.links) |-> [url |-> doc.links[i].href, depth |-> depth + 1]]
    ELSE <<>>

\* the step a worker takes when its page does not match: the worker loop
\* returns, so the worker takes no further entry
NoMatchState == "Exited"

Release(w, state) ==
    /\ wstate' = [wstate EXCEPT ![w] = state]
    /\ wentry' = [wentry EXCEPT ![w] = NoEntry]
    /\ wdoc' = [wdoc EXCEPT ![w] = NoDoc]
    /\ finished' = finished \cup {wentry[w]}
    /\ live' = live - 1

\* Idle -> Claiming
Pop(w) ==
    /\ wstate[w] = "Idle"
    /\ frontier # <<>>
    /\ wentry' = [wentry EXCEPT ![w] = Head(frontier)]
    /\ frontier' = Tail(frontier)
    /\ live' = live + 1
    /\ wstate' = [wstate EXCEPT ![w] = "Claiming"]
    /\ UNCHANGED <<wdoc, crawl_snapshots, fetched, pushed, finished>>
    /\ UNCHANGED scraper_vars

\* Idle -> Drained
Drain(w) ==
    /\ wstate[w] = "Idle"
    /\ PoolDone
    /\ wstate' = [wstate EXCEPT ![w] = "Drained"]
    /\ UNCHANGED <<frontier, live, wentry, wdoc, crawl_snapshots, fetched, pushed, finished>>
    /\ UNCHANGED scraper_vars

\* Claiming -> Fetching, or the entry is dropped
Claim(w) ==
    /\ wstate[w] = "Claiming"
    /\ IF TooDeep(wentry[w]) \/ AlreadyClaimed(wentry[w].url)
       THEN /\ Release(w, "Idle")
            /\ UNCHANGED visited_sites
       ELSE /\ visited_sites' = visited_sites \cup {wentry[w].url}
            /\ wstate' = [wstate EXCEPT ![w] = "Fetching"]
            /\ UNCHANGED <<live, wentry, wdoc, finished>>
    /\ UNCHANGED <<frontier, crawl_snapshots, fetched, pushed>>
    /\ UNCHANGED <<search_terms, file_types, max_depth, urls, files_downloaded,
                   found_files, disk, fetch_count, ncalls, nlinks, ret>>
    /\ UNCHANGED store_vars

\* Fetching -> Extracting on success, Fetching -> Enqueuing on FetchError
Fetch(w) ==
    /\ wstate[w] = "Fetching"
    /\ \E ok \in BOOLEAN :
          /\ fetched' = fetched \cup {[url |-> wentry[w].url, depth |-> wentry[w].depth, ok |-> ok]}
          /\ wdoc' = [wdoc EXCEPT ![w] = IF ok THEN Web(wentry[w].url) ELSE NoDoc]
          /\ wstate' = [wstate EXCEPT ![w] = IF ok THEN "Extracting" ELSE "Enqueuing"]
    /\ fetch_count' = [fetch_count EXCEPT ![wentry[w].url] = @ + 1]
    /\ UNCHANGED <<frontier, live, wentry, crawl_snapshots, pushed, finished>>
    /\ UNCHANGED <<search_terms, file_types, max_depth, urls, visited_sites,
                   files_downloaded, found_files, disk, ncalls, nlinks, ret>>
    /\ UNCHANGED store_vars

\* Extracting -> Harvesting on a match
Extract(w) ==
    /\ wstate[w] = "Extracting"
    /\ IF KeywordVerdict(search_terms, wdoc[w].text)
       THEN /\ crawl_snapshots' = Append(crawl_snapshots, PageSnapshot(wentry[w].url, wdoc[w]))
            /\ wstate' = [wstate EXCEPT ![w] = "Harvesting"]
            /\ UNCHANGED <<live, wentry, wdoc, finished>>
       ELSE /\ Release(w, NoMatchState)
            /\ UNCHANGED crawl_snapshots
    /\ UNCHANGED <<frontier, fetched, pushed>>
    /\ UNCHANGED scraper_vars

\* Harvesting -> Enqueuing
Harvest(w) ==
    /\ wstate[w] = "Harvesting"
    /\ LET links == FilterLinksByFileType(Hrefs(wdoc[w].links))
       IN  \E outs \in [1..Len(links) -> DownloadOutcomes] :
              LET r == DownloadLoop(links, outs,
                           [downloaded |-> <<>>, dirs |-> disk.dirs, files |-> disk.files])
              IN  /\ files_downloaded' = Extend(files_downloaded, r.downloaded)
                  /\ disk' = [dirs |-> r.dirs, files |-> r.files]
    /\ wstate' = [wstate EXCEPT ![w] = "Enqueuing"]
    /\ UNCHANGED <<frontier, live, wentry, wdoc, crawl_snapshots, fetched, pushed, finished>>
    /\ UNCHANGED <<search_terms, file_types, max_depth, urls, visited_sites,
                   found_files, fetch_count, ncalls, nlinks, ret>>
    /\ UNCHANGED store_vars

\* Enqueuing -> Idle
Enqueue(w) ==
    /\ wstate[w] = "Enqueuing"
    /\ LET children == Children(wdoc[w], wentry[w].depth)
       IN  /\ frontier' = frontier \o children
           /\ pushed' = pushed \cup Range(children)
    /\ Release(w, "Idle")
    /\ UNCHANGED <<crawl_snapshots, fetched>>
    /\ UNCHANGED scraper_vars

----------------------------------------------------------------------------
(* Specifications of the WebScraper operations *)

NoCall == [op |-> "none", args |-> <<>>, outs |-> <<>>, value |-> <<>>]

\* no snapshot is held and no snapshot file has been written
NoStore == snapshots = <<>> /\ json_file = <<>> /\ csv_file = <<>>

SearchTermArgs == {NoneArg, Some(<<>>), Some(<<KwFo>>)}

Init ==
    /\ \E st_arg \in SearchTermArgs :
       \E us \in SeqsUpTo(SeedURLs, MaxUrls) :
          InitScraper(st_arg, NoneArg, 1, us)
    /\ fetch_count = [u \in PageURLs |-> 0]
    /\ ncalls = 0
    /\ nlinks = 0
    /\ ret = NoCall
    /\ NoStore
    /\ NoCrawl

Next ==
    \/ FetchLinksFromUrl
    \/ SearchTextForKeywords
    \/ ExtractLinksWithText
    \/ ExtractTables
    \/ ExtractMainText
    \/ ExtractJsonLd
    \/ GetStructuredPageSnapshot

Spec == Init /\ [][Next]_vars

InitHarvest ==
    /\ InitScraper(Some(<<>>), NoneArg, 1, <<>>)
    /\ fetch_count = [u \in PageURLs |-> 0]
    /\ ncalls = 0
    /\ nlinks = 0
    /\ ret = NoCall
    /\ NoStore
    /\ NoCrawl

NextHarvest == DownloadFiles

SpecHarvest == InitHarvest /\ [][NextHarvest]_vars

\* the file_types argument: the default, a suffix in lower case, in capitals
FileTypeArgs == {NoneArg, Some(<< <<".", "p">> >>), Some(<< <<".", "P">> >>),
                 Some(<< <<"r">>, <<".", "P">> >>)}

\* filter_links_by_file_type on a scraper with each file_types argument
InitFilter ==
    /\ \E ft_arg \in FileTypeArgs : InitScraper(NoneArg, ft_arg, 1, <<>>)
    /\ fetch_count = [u \in PageURLs |-> 0]
    /\ ncalls = 0
    /\ nlinks = 0
    /\ ret = NoCall
    /\ NoStore
    /\ NoCrawl

NextFilter == FilterLinksByFileTypeCall

SpecFilter == InitFilter /\ [][NextFilter]_vars

\* get_structured_page_snapshot on pages with long texts and script blocks
InitSnapshot ==
    /\ \E us \in SeqsUpTo(SnapshotURLs, MaxUrls) :
          InitScraper(NoneArg, NoneArg, 1, us)
    /\ fetch_count = [u \in PageURLs |-> 0]
    /\ ncalls = 0
    /\ nlinks = 0
    /\ ret = NoCall
    /\ NoStore
    /\ NoCrawl

NextSnapshot == GetStructuredPageSnapshot

SpecSnapshot == InitSnapshot /\ [][NextSnapshot]_vars

\* the snapshot store: the caller holds a list of snapshots and exports and
\* loads it
InitStore ==
    /\ InitScraper(NoneArg, NoneArg, 1, <<>>)
    /\ fetch_count = [u \in PageURLs |-> 0]
    /\ ncalls = 0
    /\ nlinks = 0
    /\ ret = NoCall
    /\ snapshots \in SeqsUpTo(StoreSnapshots, MaxSnaps)
    /\ json_file = <<>>
    /\ csv_file = <<>>
    /\ NoCrawl

NextStore ==
    \/ ExportSnapshotsToJson
    \/ LoadSnapshotsFromJson
    \/ ExportSnapshotsToCsv

SpecStore == InitStore /\ [][NextStore]_vars

\* the deepest max_depth a crawl is configured with
DepthLimit == 1

InitCrawl ==
    /\ \E st_arg \in SearchTermArgs :
       \E md \in -1..DepthLimit :
       \E us \in SeqsUpTo(SeedURLs, MaxUrls) :
          /\ InitScraper(st_arg, Some(<<<<".", "p">>>>), md, us)
          /\ frontier = Seeds(us)
          /\ pushed = Range(Seeds(us))
    /\ fetch_count = [u \in PageURLs |-> 0]
    /\ ncalls = 0
    /\ nlinks = 0
    /\ ret = NoCall
    /\ NoStore
    /\ live = 0
    /\ wstate = [w \in Workers |-> "Idle"]
    /\ wentry = [w \in Workers |-> NoEntry]
    /\ wdoc = [w \in Workers |-> NoDoc]
    /\ crawl_snapshots = <<>>
    /\ fetched = {}
    /\ finished = {}

NextCrawl ==
    \E w \in Workers :
        \/ Pop(w)
        \/ Drain(w)
        \/ Claim(w)
        \/ Fetch(w)
        \/ Extract(w)
        \/ Harvest(w)
        \/ Enqueue(w)

SpecCrawl == InitCrawl /\ [][NextCrawl]_vars

----------------------------------------------------------------------------
(* Properties *)

Busy == {"Claiming", "Fetching", "Extracting", "Harvesting", "Enqueuing"}

\* some configured search term occurs, case-insensitively, in the page's text
Matching(u) ==
    \E i \in 1..Len(search_terms) :
        IsSubstring(LowerStr(search_terms[i]), LowerStr(Web(u).text))

FetchedOk(e) == [url |-> e.url, depth |-> e.depth, ok |-> TRUE] \in fetched

\* C1: within one WebScraper instance every URL is passed to the page fetcher
\* at most once.
NoDuplicateFetch == \A u \in PageURLs : fetch_count[u] <= 1

\* C2: every fetched entry has depth <= max_depth, where a seed has depth 0
\* and a link found on a page of depth d has depth d + 1; an entry deeper than
\* max_depth is dropped without a fetch.
DepthBound ==
    /\ \A f \in fetched : f.depth <= max_depth
    /\ \A e \in pushed :
          \/ e.depth = 0 /\ e.url \in Range(urls)
          \/ \E f \in fetched :
                /\ f.ok
                /\ e.depth = f.depth + 1
                /\ e.url \in Range(Hrefs(Web(f.url).links))
    /\ \A e \in finished : e.depth > max_depth => fetch_count[e.url] = 0

\* C2 witness: a page at the deepest allowed level, below the seeds, has been
\* fetched and its worker is through with it, its links left unexplored.
DepthBoundWitness ==
    \E e \in finished :
        /\ e.depth = max_depth
        /\ e.depth >= 1
        /\ FetchedOk(e)
        /\ Web(e.url).links # <<>>

\* C3: a worker is Drained only when the frontier is empty and no worker is
\* between taking an entry and having enqueued its children.
PoolTermination ==
    \A w \in Workers :
        wstate[w] = "Drained" =>
            /\ frontier = <<>>
            /\ \A v \in Workers : wstate[v] \notin Busy

\* C3 witness: a worker is idle on an empty frontier while a sibling fetches.
PoolTerminationWitness ==
    \E w, v \in Workers :
        /\ wstate[w] = "Idle"
        /\ frontier = <<>>
        /\ wstate[v] = "Fetching"

ChildrenAlwaysExplored ==
    /\ \A w \in Workers : wstate[w] # "Exited"
    /\ \A e \in finished :
          (FetchedOk(e) /\ e.depth + 1 <= max_depth) =>
              \A j \in 1..Len(Web(e.url).links) :
                  [url |-> Web(e.url).links[j].href, depth |-> e.depth + 1] \in pushed

\* C6: with an empty search_terms every fetched page is treated as matching:
\* once extraction has run on it, its snapshot is recorded.
EmptyFilter ==
    search_terms = <<>> =>
        \A f \in fetched :
            (f.ok /\ \A w \in Workers :
                        ~(wstate[w] = "Extracting" /\ wentry[w].url = f.url))
            => \E i \in 1..Len(crawl_snapshots) : crawl_snapshots[i].url = f.url

\* C6 witness: under the empty filter a page whose text holds none of the
\* default terms and no keyword of the model has been recorded.
EmptyFilterWitness ==
    /\ search_terms = <<>>
    /\ \E i \in 1..Len(crawl_snapshots) : crawl_snapshots[i].url = UB

\* C7: a URL whose fetch failed in get_structured_page_snapshot gets no
\* PageSnapshot and stays in the visited set.
FetchFailureIsolated ==
    ret.op = "get_structured_page_snapshot" =>
        \A i \in 1..Len(ret.outs) :
            ret.outs[i] # "ok" =>
                /\ ~\E j \in 1..Len(ret.value) : ret.value[j].url = ret.args[i]
                /\ ret.args[i] \in visited_sites

\* the positions of the links download_files requested successfully
Succeeded == {i \in 1..Len(ret.args) : FileName(ret.args[i]) # <<>> /\ ret.outs[i] = "ok"}

\* the k-th smallest member of a set of positions
Nth(S, k) == CHOOSE i \in S : Cardinality({j \in S : j <= i}) = k

\* C8: download_files returns one entry per successfully downloaded link, in
\* input order, and none for a failed link, whatever fails before or after.
HarvestIsolation ==
    ret.op = "download_files" =>
        /\ Len(ret.value) = Cardinality(Succeeded)
        /\ \A k \in 1..Len(ret.value) :
              ret.value[k] = FilePath(ret.args[Nth(Succeeded, k)])

\* C8 witness: of three links the second failed with a non-2xx answer and the
\* first and the third were downloaded.
HarvestIsolationWitness ==
    /\ ret.op = "download_files"
    /\ Len(ret.args) = 3
    /\ FileName(ret.args[2]) # <<>>
    /\ ret.outs[2] = "http_error"
    /\ Succeeded = {1, 3}
    /\ Len(ret.value) = 2

\* C9: every link whose download succeeds is saved under
\* output_dir/<host>/<extension without dot>/<basename>, a link with an empty
\* basename under a placeholder name.
HarvestSavePath ==
    ret.op = "download_files" =>
        \A i \in 1..Len(ret.args) :
            ret.outs[i] = "ok" =>
                \E k \in 1..Len(ret.value) :
                    LET path == ret.value[k]
                        name == BaseName(ret.args[i].path)
                    IN  /\ Len(path) = 4
                        /\ path[1] = OutputDir
                        /\ path[2] = ret.args[i].host
                        /\ path[4] # <<>>
                        /\ name # <<>> => path[4] = name
                        /\ (name # <<>> /\ SplitExt(name) # <<>>) =>
                              path[3] = LStripDot(SplitExt(name))

\* C10: no local path occurs twice in files_downloaded.
UniqueDownloadPaths ==
    \A i, j \in 1..Len(files_downloaded) :
        i # j => files_downloaded[i] # files_downloaded[j]

Loaded == ret.op = "load_snapshots_from_json" /\ json_file # <<>>

\* C11: loading the file export_snapshots_to_json wrote gives, without an
\* error, a list of PageSnapshot of the same length and order as the exported
\* one, each equal to its original in url, title, headings, main_text_snippet,
\* json_ld and links.
JsonRoundTrip ==
    Loaded =>
        /\ ret.outs = <<>>
        /\ Len(ret.value) = Len(snapshots)
        /\ \A i \in 1..Len(snapshots) :
              /\ ret.value[i].url = snapshots[i].url
              /\ ret.value[i].title = snapshots[i].title
              /\ ret.value[i].headings = snapshots[i].headings
              /\ ret.value[i].main_text_snippet = snapshots[i].main_text_snippet
              /\ ret.value[i].json_ld = snapshots[i].json_ld
              /\ ret.value[i].links = snapshots[i].links

\* two different snapshots, the first with escaped characters and nested
\* structured data, were exported and loaded back
JsonRoundTripWitness ==
    /\ Loaded
    /\ ret.outs = <<>>
    /\ snapshots = <<SnapQuoted, SnapLong>>
    /\ ret.value = <<SnapQuoted, SnapLong>>


\* the data rows of the CSV file, one per exported snapshot
CsvRows == IF csv_file = <<>> THEN <<>> ELSE Tail(csv_file)

\* the text with every comma and newline replaced by one space
Sanitised(text) == [i \in 1..Len(text) |-> IF text[i] \in {",", "\n"} THEN " " ELSE text[i]]

\* C12: the main_text_snippet field of every CSV row is the first 300
\* characters of the snapshot's snippet with each comma and newline replaced
\* by a space: at most 300 characters, none of them a comma or a newline.
CsvSnippetSanitised ==
    \A i \in 1..Len(CsvRows) :
        LET field == CsvRows[i].main_text_snippet
        IN  /\ Len(field) <= CsvSnippetMax
            /\ \A k \in 1..Len(field) : field[k] \notin {",", "\n"}
            /\ field = Sanitised(Prefix(snapshots[i].main_text_snippet.v, CsvSnippetMax))


\* the pages of the last get_structured_page_snapshot call that were fetched
Snapped == IF ret.op = "get_structured_page_snapshot"
           THEN {i \in 1..Len(ret.args) : ret.outs[i] # "raise"}
           ELSE {}

\* the document the i-th request of the last call returned
Doc(i) == Soup(ret.args[i], ret.outs[i])

\* C13: the main_text_snippet of every PageSnapshot is at most 1000 characters
\* long; for a joined visible text of more than 1000 characters it is a
\* truncation of the text that ends in "...", otherwise it is the text itself.
SnippetBound ==
    \A i \in Snapped :
        LET snippet == ret.value[i].main_text_snippet
            joined_text == Doc(i).visible
            n == Len(snippet)
        IN  /\ n <= SnippetMax
            /\ Len(joined_text) > SnippetMax =>
                  /\ n >= 3
                  /\ SubSeq(snippet, n - 2, n) = <<".", ".", ".">>
                  /\ SubSeq(snippet, 1, n - 3) = SubSeq(joined_text, 1, n - 3)
            /\ Len(joined_text) <= SnippetMax => snippet = joined_text

\* C13, amended: the main_text_snippet of every PageSnapshot is at most 1003
\* characters long; for a joined visible text of more than 1000 characters it
\* is the first 1000 characters of the text followed by "...", otherwise it
\* is the text itself.
SnippetBoundAmended ==
    \A i \in Snapped :
        LET snippet == ret.value[i].main_text_snippet
            joined_text == Doc(i).visible
        IN  /\ Len(snippet) <= SnippetMax + 3
            /\ Len(joined_text) > SnippetMax =>
                  /\ Len(snippet) = SnippetMax + 3
                  /\ \A k \in 1..SnippetMax : snippet[k] = joined_text[k]
                  /\ \A k \in (SnippetMax + 1)..(SnippetMax + 3) : snippet[k] = "."
            /\ Len(joined_text) <= SnippetMax => snippet = joined_text

\* a page of 1001 characters and a page of 1000 characters were snapshotted:
\* the first snippet has 1003 characters, the second is the whole text
SnippetBoundWitness ==
    /\ ret.op = "get_structured_page_snapshot"
    /\ ret.args = <<UOver, UExact>>
    /\ ret.outs = <<"ok", "ok">>
    /\ Len(ret.value[1].main_text_snippet) = SnippetMax + 3
    /\ ret.value[2].main_text_snippet = Web(UExact).visible

\* the blocks of a page that parse, in document order
WellFormed(scripts) == SelectSeq(scripts, LAMBDA block : Loads(block).ok)

\* what a well-formed block contributes: the elements of a list, or the value
Objects(block) ==
    LET parsed == Loads(block).val
    IN  IF parsed.t = "list" THEN parsed.v ELSE <<parsed>>

RECURSIVE Flatten(_)
Flatten(seqs) == IF seqs = <<>> THEN <<>> ELSE Head(seqs) \o Flatten(Tail(seqs))

\* C17: the json_ld of a snapshot holds, in document order, the objects of
\* every well-formed script block of the page and nothing of a malformed one;
\* with malformed blocks on the page the title, headings, snippet and links
\* are those of the document and the snapshot is not the empty failure
\* snapshot.
ParseIsolation ==
    \A i \in Snapped :
        LET snap == ret.value[i]
            good == WellFormed(Doc(i).scripts)
        IN  /\ snap.json_ld = Flatten([k \in 1..Len(good) |-> Objects(good[k])])
            /\ snap.title = Doc(i).title
            /\ snap.headings = Doc(i).headings
            /\ snap.main_text_snippet = Snippet(Doc(i).visible)
            /\ snap.links = Doc(i).links
            /\ snap # EmptySnapshot(ret.args[i])

\* a page with two well-formed blocks after a malformed one was snapshotted:
\* the object, the two list elements and the number are there, in order
ParseIsolationWitness ==
    /\ ret.op = "get_structured_page_snapshot"
    /\ ret.args = <<UBroken, UScripts>>
    /\ ret.outs = <<"ok", "ok">>
    /\ ret.value[1].json_ld = <<>>
    /\ ret.value[1].title = "K"
    /\ ret.value[2].json_ld = <<Dict(<< <<Key("@type"), Str(<<"Person">>)>> >>),
                                Dict(<< <<Key("n"), Num(1)>> >>), Num(2), Num(3)>>
    /\ ret.value[2].links = Web(UScripts).links


\* C14: filter_links_by_file_type returns, in input order, exactly the links
\* whose path ends with a configured suffix, the link and the suffix both
\* compared without regard to case.
FileTypeFilter ==
    ret.op = "filter_links_by_file_type" =>
        ret.value = SelectSeq(ret.args, LAMBDA link :
                        \E i \in 1..Len(file_types) :
                            EndsWith(LowerStr(link.path), LowerStr(file_types[i])))


ExtractionOps == {"search_text_for_keywords", "extract_links_with_text", "extract_tables",
                  "extract_main_text", "extract_json_ld"}

\* what the last call returned: no element for None, else the one mapping
Returned == IF ret.op = "extract_tables" THEN ret.value ELSE Some(ret.value)

\* the request for the last occurrence of ret.args[i] in the urls failed
FailedLast(i) ==
    /\ ret.outs[i] = "raise"
    /\ \A j \in (i + 1)..Len(ret.args) : ret.args[j] # ret.args[i]

\* C15: each extraction operation returns a mapping whose key set is exactly
\* the set of configured urls, whatever the mix of fetch successes and
\* failures, and a URL whose fetch failed maps to an empty result.
ResultCompleteness ==
    ret.op \in ExtractionOps =>
        /\ Returned # NoneArg
        /\ \A d \in Returned :
              /\ DOMAIN d = Range(ret.args)
              /\ \A i \in 1..Len(ret.args) : FailedLast(i) => d[ret.args[i]] = <<>>


\* C16: files_downloaded starts empty and every download_files call appends
\* the list it returns, so the log is the concatenation of the returned lists
\* in call order; a call in which every link fails returns the empty list and
\* leaves the log as it was.
DownloadLogAccumulation ==
    /\ files_downloaded = <<>>
    /\ [][/\ ret'.op = "download_files"
          /\ files_downloaded' = files_downloaded \o ret'.value
          /\ SubSeq(files_downloaded', 1, Len(files_downloaded)) = files_downloaded
          /\ Succeeded' = {} => ret'.value = <<>> /\ files_downloaded' = files_downloaded]_vars

\* a second call with links that all failed came after a call that
\* downloaded two files: it returned the empty list and the log holds the two
DownloadLogWitness ==
    /\ ncalls = 2
    /\ ret.op = "download_files"
    /\ ret.args # <<>>
    /\ \A i \in 1..Len(ret.args) : FileName(ret.args[i]) # <<>> /\ ret.outs[i] # "ok"
    /\ ret.value = <<>>
    /\ Len(files_downloaded) = 2


====
